---- MODULE Spec2Model ----
(***************************************************************************)
(* Model of the cobee-msa-ml recommendation engine:                        *)
(*   - the phase transition controller (scripts/update_phase.py,           *)
(*     scripts/compare_phases.py) over the persisted phase configuration   *)
(*     (src/utils/config_loader.py);                                       *)
(*   - the rule-based scorer and the hybrid score blender                  *)
(*     (src/recommender/knn/rule_based.py, src/recommender/                *)
(*     hybrid_recommender.py).                                             *)
(* Real-valued quantities are kept exact as integers: metrics in percent,  *)
(* blend weights in tenths, blended scores as numerators over a common     *)
(* denominator.                                                            *)
(***************************************************************************)
EXTENDS Integers, Sequences, FiniteSets, TLC

VARIABLES
    file,      \* config/config.json as persisted on disk
    mem,       \* ConfigLoader._config, the process-wide singleton's copy
    lastRun,   \* observation of the last controller run (inputs, outcome)
    db,        \* relational store: members present, open posts, bookmarks, applies
    artifact,  \* the learned-model artifact models/svd_model.pkl
    resp,      \* observation of the last recommendation request and its result
    evalObs,   \* observation of the last concrete evaluation (test users, metrics)
    rt,        \* clocks, file modification time, and the positions of the
               \* API process and of a controller run that interleave
    calc       \* inputs and result of the last scorer function applied on its own

vars == <<file, mem, lastRun, db, artifact, resp, evalObs, rt, calc>>

phaseVars == <<file, mem, lastRun>>
recVars == <<db, artifact, resp, evalObs, rt, calc>>

(***************************************************************************)
(* Phase configuration                                                     *)
(***************************************************************************)

\* phase_order in compare_phases.py
phase_order == <<"P1", "P2", "P3">>

Phases == {phase_order[i] : i \in 1..Len(phase_order)}

\* a JSON null stored in phase.current
None == "None"

\* phase_order.index(phase); only applied to members of Phases
PhaseIndex(phase) == CHOOSE i \in 1..Len(phase_order) : phase_order[i] = phase

\* defaults the code falls back to when the configuration document has no key
DefaultP2Min == 100
DefaultP3Min == 1000
DefaultEvaluationInterval == 100
\* min_improvement_ratio 1.1 as a fraction
MinImprovementNum == 11
MinImprovementDen == 10
\* metric weights 0.5 / 0.3 / 0.2 in tenths
PrecisionWeight == 5
RecallWeight == 3
NdcgWeight == 2
\* minimum number of users with relevant test items
MinEvalUsers == 5

\* bounds of the explored inputs
CountStep == 50
MaxSteps == 3

CountValues == {k * CountStep : k \in 0..MaxSteps} \cup {DefaultP3Min}

\* metric triples <<precision@10, recall@10, ndcg@10>> in percent
MetricProfiles ==
    { <<0, 0, 0>>, <<50, 50, 50>>, <<54, 54, 54>>, <<56, 56, 56>> }

UserCounts == {MinEvalUsers - 1, MinEvalUsers}

\* the weights section: per phase rule_based / matrix_factorization in tenths
StandardWeights ==
    [P1 |-> [rule_based |-> 10, matrix_factorization |-> 0],
     P2 |-> [rule_based |-> 6, matrix_factorization |-> 4],
     P3 |-> [rule_based |-> 2, matrix_factorization |-> 8]]

\* an entry without keys
EmptySection == [k \in {} |-> 0]

\* documents whose P2 entry lacks rule_based, or lacks both keys
WeightDocs ==
    { StandardWeights,
      [StandardWeights EXCEPT !["P2"] = [matrix_factorization |-> 4]],
      [StandardWeights EXCEPT !["P2"] = EmptySection] }

\* defaults of ConfigLoader.get_weights, in tenths (1.0 and 0.0)
DefaultRuleWeight == 10
DefaultMfWeight == 0

\* ConfigLoader.get_weights
get_weights(cfg, phase) ==
    LET weights == IF phase \in DOMAIN cfg.weights THEN cfg.weights[phase] ELSE EmptySection
    IN [rule_based |-> IF "rule_based" \in DOMAIN weights
                       THEN weights.rule_based ELSE DefaultRuleWeight,
        matrix_factorization |-> IF "matrix_factorization" \in DOMAIN weights
                                 THEN weights.matrix_factorization ELSE DefaultMfWeight]

NoRecord == [evaluated |-> FALSE, precision |-> 0, recall |-> 0, ndcg |-> 0, count |-> 0]

EmptyHistory == [p \in Phases |-> NoRecord]

\* ConfigLoader.get_current_phase
get_current_phase(cfg) == cfg.current

\* PhaseUpdater.count_interactions: the total, or 0 when a COUNT query raises
count_interactions(dbOk, total) == IF dbOk THEN total ELSE 0

\* should_evaluate_phase_transition without the auto_transition_enabled test
should_evaluate_phase_transition_IgnoresAuto(cfg, current_count, last_count) ==
    IF current_count < DefaultP2Min THEN FALSE
    ELSE (current_count \div DefaultEvaluationInterval) * DefaultEvaluationInterval
            > (last_count \div DefaultEvaluationInterval) * DefaultEvaluationInterval

\* should_evaluate_phase_transition triggering on a milestone already reached
should_evaluate_phase_transition_SameMilestone(cfg, current_count, last_count) ==
    IF ~cfg.auto THEN FALSE
    ELSE IF current_count < DefaultP2Min THEN FALSE
    ELSE (current_count \div DefaultEvaluationInterval) * DefaultEvaluationInterval
            >= (last_count \div DefaultEvaluationInterval) * DefaultEvaluationInterval

\* PhaseUpdater.should_evaluate_phase_transition
should_evaluate_phase_transition(cfg, current_count, last_count) ==
    IF ~cfg.auto THEN FALSE
    ELSE IF current_count < DefaultP2Min THEN FALSE
    ELSE LET current_milestone ==
                 (current_count \div DefaultEvaluationInterval) * DefaultEvaluationInterval
             last_milestone ==
                 (last_count \div DefaultEvaluationInterval) * DefaultEvaluationInterval
         IN current_milestone > last_milestone

\* the cutoffs compared with > in place of >=
get_phase_by_interaction_count_StrictCutoff(count) ==
    IF count > DefaultP3Min THEN "P3"
    ELSE IF count > DefaultP2Min THEN "P2"
    ELSE "P1"

\* PhaseUpdater.get_phase_by_interaction_count
get_phase_by_interaction_count(count) ==
    IF count >= DefaultP3Min THEN "P3"
    ELSE IF count >= DefaultP2Min THEN "P2"
    ELSE "P1"

\* PhaseUpdater.update_phase_in_config: the document written to disk
update_phase_in_config(cfg, new_phase, interaction_count) ==
    [cfg EXCEPT !.current = new_phase, !.count = interaction_count]

\* PhaseComparator.calculate_weighted_score, in thousandths
calculate_weighted_score(metrics) ==
    metrics[1] * PrecisionWeight + metrics[2] * RecallWeight + metrics[3] * NdcgWeight

\* compare_and_recommend taking the ratio over a zero current score as
\* unbounded: any positive next score then satisfies it
compare_and_recommend_ZeroAsUnbounded(results, current_phase) ==
    LET scores == [p \in DOMAIN results |-> calculate_weighted_score(results[p])]
        current_score == IF current_phase \in DOMAIN scores THEN scores[current_phase] ELSE 0
        current_idx == PhaseIndex(current_phase)
    IN IF current_idx < Len(phase_order)
       THEN LET next_phase == phase_order[current_idx + 1]
                next_score == IF next_phase \in DOMAIN scores THEN scores[next_phase] ELSE 0
                enough == IF current_score > 0
                          THEN next_score * MinImprovementDen >= MinImprovementNum * current_score
                          ELSE next_score > 0
            IN IF enough THEN next_phase ELSE current_phase
       ELSE current_phase

\* compare_and_recommend without the hysteresis gate: promotes as soon as the
\* next phase scores at least as well as the current one
compare_and_recommend_NoHysteresis(results, current_phase) ==
    LET scores == [p \in DOMAIN results |-> calculate_weighted_score(results[p])]
        current_score == IF current_phase \in DOMAIN scores THEN scores[current_phase] ELSE 0
        current_idx == PhaseIndex(current_phase)
    IN IF current_idx < Len(phase_order)
       THEN LET next_phase == phase_order[current_idx + 1]
                next_score == IF next_phase \in DOMAIN scores THEN scores[next_phase] ELSE 0
            IN IF current_score > 0 /\ next_score >= current_score
               THEN next_phase ELSE current_phase
       ELSE current_phase

\* PhaseComparator.compare_and_recommend; results maps evaluated phases to metrics
compare_and_recommend(results, current_phase) ==
    LET scores == [p \in DOMAIN results |-> calculate_weighted_score(results[p])]
        current_score == IF current_phase \in DOMAIN scores THEN scores[current_phase] ELSE 0
        current_idx == PhaseIndex(current_phase)
    IN IF current_idx < Len(phase_order)
       THEN LET next_phase == phase_order[current_idx + 1]
                next_score == IF next_phase \in DOMAIN scores THEN scores[next_phase] ELSE 0
                \* improvement_ratio >= min_improvement, cross-multiplied;
                \* the ratio is 0 when current_score is 0
                enough == IF current_score > 0
                          THEN next_score * MinImprovementDen >= MinImprovementNum * current_score
                          ELSE FALSE
            IN IF enough THEN next_phase ELSE current_phase
       ELSE current_phase

\* update_config_with_results recording the current phase only
update_config_with_results_CurrentOnly(cfg, results) ==
    [cfg EXCEPT !.history =
        [p \in Phases |->
            IF p \in DOMAIN results /\ p = cfg.current
            THEN [evaluated |-> TRUE, precision |-> results[p][1], recall |-> results[p][2],
                  ndcg |-> results[p][3], count |-> cfg.count]
            ELSE cfg.history[p]]]

\* PhaseComparator.update_config_with_results: the document written to disk
update_config_with_results(cfg, results) ==
    [cfg EXCEPT !.history =
        [p \in Phases |->
            IF p \in DOMAIN results
            THEN [evaluated |-> TRUE, precision |-> results[p][1], recall |-> results[p][2],
                  ndcg |-> results[p][3], count |-> cfg.count]
            ELSE cfg.history[p]]]

\* phases_to_evaluate in PhaseComparator.run
phases_to_evaluate(current_phase) ==
    IF PhaseIndex(current_phase) < Len(phase_order)
    THEN {current_phase, phase_order[PhaseIndex(current_phase) + 1]}
    ELSE {current_phase}

\* what the evaluation harness can observe in one comparator run:
\* testOk: load_test_data succeeded; users: len(user_relevant_items);
\* mcur, mnext: what evaluate_phase returns for the current and the next phase
NoMetrics == <<0, 0, 0>>

EvalOutcomes ==
    {[testOk |-> FALSE, users |-> 0, mcur |-> NoMetrics, mnext |-> NoMetrics]}
    \cup {[testOk |-> TRUE, users |-> u, mcur |-> NoMetrics, mnext |-> NoMetrics] :
            u \in {n \in UserCounts : n < MinEvalUsers}}
    \cup {[testOk |-> TRUE, users |-> u, mcur |-> a, mnext |-> b] :
            u \in {n \in UserCounts : n >= MinEvalUsers},
            a \in MetricProfiles, b \in MetricProfiles}

NoEval == [testOk |-> TRUE, users |-> 0, mcur |-> NoMetrics, mnext |-> NoMetrics]

NoResults == [p \in {} |-> NoMetrics]

\* PhaseComparator.run on the freshly loaded document cfg under the observed
\* evaluation outcome ev.  Result: raised (an exception leaves run), ret (the
\* returned value), cfg (the document in memory afterwards), results (the
\* metrics per evaluated phase), decided (compare_and_recommend was reached).
PhaseComparator_run(cfg, ev) ==
    IF ~ev.testOk
    THEN [raised |-> TRUE, ret |-> None, cfg |-> cfg, results |-> NoResults,
          inconclusive |-> FALSE, decided |-> FALSE]
    ELSE IF ev.users < MinEvalUsers
    THEN \* a bare return: the caller receives None
         [raised |-> FALSE, ret |-> None, cfg |-> cfg, results |-> NoResults,
          inconclusive |-> TRUE, decided |-> FALSE]
    ELSE IF get_current_phase(cfg) \notin Phases
    THEN \* phase_order.index raises ValueError
         [raised |-> TRUE, ret |-> None, cfg |-> cfg, results |-> NoResults,
          inconclusive |-> FALSE, decided |-> FALSE]
    ELSE LET current_phase == get_current_phase(cfg)
             evaluated == phases_to_evaluate(current_phase)
             results == [p \in evaluated |-> IF p = current_phase THEN ev.mcur ELSE ev.mnext]
             recommended_phase == compare_and_recommend(results, current_phase)
         IN [raised |-> FALSE, ret |-> recommended_phase,
             cfg |-> update_config_with_results(cfg, results),
             results |-> results, inconclusive |-> FALSE, decided |-> TRUE]

\* PhaseUpdater.run_phase_comparison: any exception of the comparator is caught
\* and the current phase of the shared configuration is returned instead
run_phase_comparison(cmp) ==
    IF cmp.raised THEN get_current_phase(cmp.cfg) ELSE cmp.ret

\* run_phase_update in src/api/main.py: the scheduler job logs whatever
\* PhaseUpdater.run raises and returns normally
run_phase_update(outcome) == "completed"

\* run_phase_update_now in src/api/main.py: the status the endpoint reports
run_phase_update_now(outcome) ==
    IF run_phase_update(outcome) = "completed" THEN "success" ELSE "error"

InitialConfig(auto) ==
    [current |-> "P1", count |-> 0, auto |-> auto, history |-> EmptyHistory,
     weights |-> StandardWeights]

NoRun ==
    [kind |-> "none", current |-> "P1", counted |-> 0,
     countFailed |-> FALSE, triggered |-> FALSE, thresholdUsed |-> FALSE,
     evalRaised |-> FALSE, inconclusive |-> FALSE, decided |-> FALSE, results |-> NoResults,
     recommended |-> None, outcome |-> "none", report |-> "none"]

NoServed == [kind |-> "none", phase |-> "P1", persisted |-> "P1",
             quiet |-> FALSE, evaluating |-> FALSE]

\* the API process loaded the document at time 1; no controller run is active
NoRt ==
    [clock |-> 1, mtime |-> 0, torn |-> FALSE, last_loaded |-> 1,
     api |-> "idle", ctl |-> "idle", where |-> "process", doc |-> InitialConfig(TRUE),
     original_phase |-> "P1", runs |-> 0, requests |-> 0, runs_at_start |-> 0,
     quiet_at_start |-> FALSE, served |-> NoServed]

NoCalc == [kind |-> "none"]

\* PhaseUpdater.run, from construction (load_config) to the final write.
\* dbOk: the COUNT queries succeeded; total: rows in apply_record + bookmark.
PhaseUpdater_run(dbOk, total, ev) ==
    LET cfg0 == file
        current_interaction_count == count_interactions(dbOk, total)
        last_interaction_count == cfg0.count
        current_phase == get_current_phase(cfg0)
        should_evaluate == should_evaluate_phase_transition(
                               cfg0, current_interaction_count, last_interaction_count)
        cmp == PhaseComparator_run(cfg0, ev)
        recommended_phase == run_phase_comparison(cmp)
        threshold == ~should_evaluate /\ ~cfg0.auto
        new_phase == IF should_evaluate THEN recommended_phase
                     ELSE IF threshold
                     THEN get_phase_by_interaction_count(current_interaction_count)
                     ELSE current_phase
        cfg1 == IF should_evaluate THEN cmp.cfg ELSE cfg0
        cfg2 == update_phase_in_config(cfg1, new_phase, current_interaction_count)
    IN /\ (~should_evaluate) => ev = NoEval
       /\ mem' = cfg2
       /\ file' = cfg2
       /\ lastRun' = [kind |-> "update", current |-> current_phase,
                      counted |-> current_interaction_count, countFailed |-> ~dbOk,
                      triggered |-> should_evaluate, thresholdUsed |-> threshold,
                      evalRaised |-> should_evaluate /\ cmp.raised,
                      inconclusive |-> should_evaluate /\ cmp.inconclusive,
                      decided |-> should_evaluate /\ cmp.decided,
                      results |-> IF should_evaluate THEN cmp.results ELSE NoResults,
                      recommended |-> IF should_evaluate THEN recommended_phase ELSE None,
                      outcome |-> "returned",
                      report |-> run_phase_update_now("returned")]
       /\ UNCHANGED recVars

\* the scheduled job / the run-now endpoint: one PhaseUpdater.run
PhaseUpdaterRun ==
    \E dbOk \in BOOLEAN, total \in CountValues, ev \in EvalOutcomes \cup {NoEval} :
        /\ (~dbOk) => total = 0
        /\ PhaseUpdater_run(dbOk, total, ev)

\* scripts/compare_phases.py main: one stand-alone PhaseComparator.run
PhaseComparatorMain ==
    \E ev \in EvalOutcomes :
        LET cmp == PhaseComparator_run(file, ev)
        IN /\ mem' = cmp.cfg
           /\ file' = cmp.cfg
           /\ lastRun' = [kind |-> "compare", current |-> get_current_phase(file),
                          counted |-> file.count, countFailed |-> FALSE,
                          triggered |-> TRUE, thresholdUsed |-> FALSE,
                          evalRaised |-> cmp.raised, inconclusive |-> cmp.inconclusive,
                          decided |-> cmp.decided, results |-> cmp.results,
                          recommended |-> cmp.ret,
                          outcome |-> IF cmp.raised THEN "raised" ELSE "returned",
                          report |-> "none"]
           /\ UNCHANGED recVars

(***************************************************************************)
(* Relational store and fixtures                                           *)
(***************************************************************************)

\* bounds of the explored inputs
MaxPosts == 3
MaxLimit == 2

\* rows of member_information the requests are run against
MemberTable ==
    << [gender |-> "MAN", birth |-> <<2000, 3, 10>>,
        preferred_gender |-> "FEMALE", preferred_life_style |-> "MORNING",
        preferred_personality |-> "INTROVERT",
        possible_smoking |-> FALSE, possible_snoring |-> TRUE, has_pet_allowed |-> FALSE,
        cohabitant_count |-> 2,
        my_lifestyle |-> "MORNING", my_personality |-> "EXTROVERT",
        is_smoking |-> FALSE, is_snoring |-> FALSE, has_pet |-> FALSE],
       [gender |-> "FEMALE", birth |-> <<1996, 9, 1>>,
        preferred_gender |-> "NONE", preferred_life_style |-> "EVENING",
        preferred_personality |-> "EXTROVERT",
        possible_smoking |-> TRUE, possible_snoring |-> FALSE, has_pet_allowed |-> TRUE,
        cohabitant_count |-> 0,
        my_lifestyle |-> "MORNING", my_personality |-> "INTROVERT",
        is_smoking |-> FALSE, is_snoring |-> TRUE, has_pet |-> FALSE],
       [gender |-> "MAN", birth |-> <<2003, 6, 20>>,
        preferred_gender |-> "MAN", preferred_life_style |-> "MORNING",
        preferred_personality |-> "EXTROVERT",
        possible_smoking |-> FALSE, possible_snoring |-> FALSE, has_pet_allowed |-> FALSE,
        cohabitant_count |-> 1,
        my_lifestyle |-> "EVENING", my_personality |-> "EXTROVERT",
        is_smoking |-> TRUE, is_snoring |-> FALSE, has_pet |-> TRUE] >>

MemberIds == DOMAIN MemberTable

\* the row of a member id; ids past the table (users that only occur in the
\* evaluation test set) repeat its rows
MemberRow(id) == MemberTable[((id - 1) % Len(MemberTable)) + 1]

\* date.today() of the run
Today == <<2025, 6, 15>>

\* rows of recruit_post: ids 1..MaxPosts, member_id and recruit_count per row
PostIds == 1..MaxPosts
PostMemberId(p) == ((p - 1) % Len(MemberTable)) + 1
PostRecruitCount(p) == p

\* preferred_gender and <<preferred_age_min, preferred_age_max>> per row
PostPreferredGender(p) == IF p % 2 = 0 THEN "NONE" ELSE "FEMALE"
PostPreferredAge(p) == IF p % 2 = 0 THEN <<26, 34>> ELSE <<19, 24>>

\* MemberInformationORM.calculate_age
calculate_age(member) ==
    LET age == Today[1] - member.birth[1]
        before == \/ Today[2] < member.birth[2]
                  \/ (Today[2] = member.birth[2] /\ Today[3] < member.birth[3])
    IN IF before THEN age - 1 ELSE age

(***************************************************************************)
(* Rule-based scorer                                                       *)
(***************************************************************************)

\* configured feature weights (defaults of rule_based.feature_weights)
GenderWeight == 5
AgeWeight == 3
\* value ranges assumed by calculate_max_possible_distance
MaxAgeSpan == 15
MaxOccupancySpan == 10
\* the score 1.0 in hundredths
ScoreOne == 100

Bit(b) == IF b THEN 1 ELSE 0

\* create_feature_vector
create_feature_vector(member, recruit_count, author) ==
    [member_vec |->
        << Bit(member.preferred_gender = "MAN"),
           Bit(member.preferred_gender = "FEMALE"),
           Bit(member.preferred_gender = "NONE"),
           calculate_age(member),
           Bit(member.preferred_life_style = "MORNING"),
           Bit(member.preferred_life_style = "EVENING"),
           Bit(member.preferred_personality = "INTROVERT"),
           Bit(member.preferred_personality = "EXTROVERT"),
           Bit(member.possible_smoking),
           Bit(member.possible_snoring),
           Bit(member.has_pet_allowed),
           member.cohabitant_count >>,
     author_vec |->
        << Bit(author.gender = "MAN"),
           Bit(author.gender = "FEMALE"),
           0,
           calculate_age(author),
           Bit(author.my_lifestyle = "MORNING"),
           Bit(author.my_lifestyle = "EVENING"),
           Bit(author.my_personality = "INTROVERT"),
           Bit(author.my_personality = "EXTROVERT"),
           Bit(author.is_smoking),
           Bit(author.is_snoring),
           Bit(author.has_pet),
           recruit_count >>]

\* create_weight_vector
create_weight_vector(gender_weight, age_weight) ==
    <<gender_weight, gender_weight, gender_weight, age_weight, 1, 1, 1, 1, 1, 1, 1, 1>>

RECURSIVE SumTo(_, _)
SumTo(f, n) == IF n = 0 THEN 0 ELSE f[n] + SumTo(f, n - 1)

\* the sum with w * (a - b) in place of w * ((a - b) ** 2)
distance_squared_NoSquare(vec_a, vec_b, weights) ==
    SumTo([i \in 1..Len(vec_a) |-> weights[i] * (vec_a[i] - vec_b[i])], Len(vec_a))

\* calculate_weighted_euclidean_distance, before the square root
distance_squared(vec_a, vec_b, weights) ==
    SumTo([i \in 1..Len(vec_a) |-> weights[i] * (vec_a[i] - vec_b[i]) * (vec_a[i] - vec_b[i])],
          Len(vec_a))

\* calculate_weighted_euclidean_distance: raised when a length check fails
\* or math.sqrt is handed a negative sum
calculate_weighted_euclidean_distance(vec_a, vec_b, weights) ==
    IF Len(vec_a) # Len(vec_b) \/ Len(weights) # Len(vec_a)
    THEN [raised |-> TRUE, distance_squared |-> 0]
    ELSE IF distance_squared(vec_a, vec_b, weights) < 0
    THEN [raised |-> TRUE, distance_squared |-> 0]
    ELSE [raised |-> FALSE, distance_squared |-> distance_squared(vec_a, vec_b, weights)]

\* RuleBasedKNNRecommender.calculate_weighted_distance, squared
calculate_weighted_distance(user_id, post_id) ==
    LET v == create_feature_vector(MemberRow(user_id), PostRecruitCount(post_id),
                                   MemberTable[PostMemberId(post_id)])
    IN distance_squared(v.member_vec, v.author_vec,
                        create_weight_vector(GenderWeight, AgeWeight))

\* max_distance_squared with an age span of 10 instead of 15
max_distance_squared_NarrowAge(gender_weight, age_weight) ==
    3 * gender_weight * 2 + 1 * age_weight * (10 * 10)
    + 2 * 1 * 2 + 2 * 1 * 2 + 3 * 1 * 1 + 1 * 1 * (MaxOccupancySpan * MaxOccupancySpan)

\* max_distance_squared of calculate_max_possible_distance for a recommender
\* constructed with the given feature weights
max_distance_squared(gender_weight, age_weight) ==
    3 * gender_weight * 2 + 1 * age_weight * (MaxAgeSpan * MaxAgeSpan)
    + 2 * 1 * 2 + 2 * 1 * 2 + 3 * 1 * 1 + 1 * 1 * (MaxOccupancySpan * MaxOccupancySpan)

\* RuleBasedKNNRecommender.calculate_max_possible_distance, squared
calculate_max_possible_distance == max_distance_squared(GenderWeight, AgeWeight)

\* floor of the square root
ISqrt(n) == CHOOSE k \in 0..n : k * k <= n /\ n < (k + 1) * (k + 1)

\* the score of generate_explanation, max(0, min(1, 1 - distance / max_distance)),
\* in hundredths: distance / max_distance is rounded down to a hundredth
explanation_score(d2) ==
    IF d2 >= calculate_max_possible_distance THEN 0
    ELSE ScoreOne - ISqrt((d2 * ScoreOne * ScoreOne) \div calculate_max_possible_distance)

\* RuleBasedKNNRecommender.get_member_exclusions
get_member_exclusions(d, member_id) ==
    {r[2] : r \in {b \in d.bookmarks : b[1] = member_id}}
    \cup {r[2] : r \in {a \in d.applies : a[1] = member_id}}

\* list.sort(key=...): ascending by key, equal keys keep the row order (by id)
RECURSIVE SortAsc(_, _)
SortAsc(S, key) ==
    IF S = {} THEN <<>>
    ELSE LET m == CHOOSE x \in S :
                    \A y \in S : key[x] < key[y] \/ (key[x] = key[y] /\ x <= y)
         IN <<m>> \o SortAsc(S \ {m}, key)

\* sorted(..., reverse=True): descending by key, equal keys keep their order
RECURSIVE SortDesc(_, _)
SortDesc(S, key) ==
    IF S = {} THEN <<>>
    ELSE LET m == CHOOSE x \in S :
                    \A y \in S : key[x] > key[y] \/ (key[x] = key[y] /\ x <= y)
         IN <<m>> \o SortDesc(S \ {m}, key)

\* seq[:n]
Take(seq, n) == SubSeq(seq, 1, IF n < Len(seq) THEN n ELSE Len(seq))

\* the ordered listing ids of a result
ids_of(items) == [i \in 1..Len(items) |-> items[i].id]

NoExplanation == [present |-> FALSE, score |-> 0, reason |-> "none"]

\* filters.is_gender_compatible
is_gender_compatible(member, post_author, post_preferred_gender) ==
    /\ ~(post_preferred_gender # "NONE" /\ member.gender # post_preferred_gender)
    /\ ~(member.preferred_gender # "NONE" /\ post_author.gender # member.preferred_gender)

\* filters.is_age_compatible
is_age_compatible(member_age, preferred_age_min, preferred_age_max) ==
    preferred_age_min <= member_age /\ member_age <= preferred_age_max

\* the two hard filters applied to a requester and a listing
passes_hard_filters(user_id, p) ==
    /\ is_gender_compatible(MemberRow(user_id), MemberTable[PostMemberId(p)],
                            PostPreferredGender(p))
    /\ is_age_compatible(calculate_age(MemberRow(user_id)),
                         PostPreferredAge(p)[1], PostPreferredAge(p)[2])

\* the candidate loop with the gender and age filters applied as a gate
rule_candidates_HardFilter(d, user_id) ==
    {p \in d.recruiting :
        /\ p \notin get_member_exclusions(d, user_id)
        /\ PostMemberId(p) # user_id
        /\ PostMemberId(p) \in d.present
        /\ passes_hard_filters(user_id, p)}

\* candidate loop of RuleBasedKNNRecommender.recommend (steps 3 and 4)
rule_candidates(d, user_id) ==
    {p \in d.recruiting :
        /\ p \notin get_member_exclusions(d, user_id)
        /\ PostMemberId(p) # user_id
        /\ PostMemberId(p) \in d.present}

\* RuleBasedKNNRecommender.recommend: items carry the post id, the score as
\* num / den, the rank and the explanation
rule_recommend(d, user_id, limit, include_explanations) ==
    IF user_id \notin d.present THEN <<>>
    ELSE LET candidates == rule_candidates(d, user_id)
             distance == [p \in candidates |-> calculate_weighted_distance(user_id, p)]
             top_candidates == Take(SortAsc(candidates, distance), limit)
         IN [rank \in 1..Len(top_candidates) |->
                LET p == top_candidates[rank]
                    explanation ==
                        IF include_explanations
                        THEN [present |-> TRUE, score |-> explanation_score(distance[p]),
                              reason |-> "rule"]
                        ELSE NoExplanation
                IN [id |-> p,
                    num |-> IF explanation.present THEN explanation.score ELSE 0,
                    den |-> ScoreOne,
                    rank |-> rank,
                    explanation |-> explanation]]

(***************************************************************************)
(* Hybrid recommender                                                      *)
(***************************************************************************)

\* rating substituted when predict raises
DefaultRating == 3
\* .limit(50) of the additional RECRUITING posts
AdditionalLimit == 50

\* what models/svd_model.pkl can be: missing or unloadable ("none"), a model
\* whose predict raises for every pair ("fails"), or a model whose estimate
\* rises / falls with the post id
Artifacts == {"none", "fails", "asc", "desc"}

\* HybridRecommender.load_mf_model
load_mf_model(art) == art # "none"

\* HybridRecommender.get_mf_predictions
get_mf_predictions(art, user_id, post_ids) ==
    [p \in post_ids |->
        IF art = "asc" THEN ((p - 1) % 5) + 1
        ELSE IF art = "desc" THEN 5 - ((p - 1) % 5)
        ELSE DefaultRating]

SetMin(S) == CHOOSE x \in S : \A y \in S : x <= y
SetMax(S) == CHOOSE x \in S : \A y \in S : x >= y

\* normalize_scores dividing by the maximum without subtracting the minimum
normalize_scores_NoShift(scores) ==
    IF DOMAIN scores = {} THEN [num |-> scores, den |-> 1]
    ELSE LET values == {scores[k] : k \in DOMAIN scores}
             min_score == SetMin(values)
             max_score == SetMax(values)
         IN IF max_score = min_score
            THEN [num |-> [k \in DOMAIN scores |-> 1], den |-> 2]
            ELSE [num |-> [k \in DOMAIN scores |-> scores[k]], den |-> max_score]

\* HybridRecommender.normalize_scores: the normalized value of k is
\* num[k] / den
normalize_scores(scores) ==
    IF DOMAIN scores = {} THEN [num |-> scores, den |-> 1]
    ELSE LET values == {scores[k] : k \in DOMAIN scores}
             min_score == SetMin(values)
             max_score == SetMax(values)
         IN IF max_score = min_score
            THEN [num |-> [k \in DOMAIN scores |-> 1], den |-> 2]
            ELSE [num |-> [k \in DOMAIN scores |-> scores[k] - min_score],
                  den |-> max_score - min_score]

\* blended_scores with the two weights exchanged
blended_scores_SwappedWeights(rule_scores, mf_predictions, rule_weight, mf_weight) ==
    LET rule_scores_norm == normalize_scores(rule_scores)
        mf_scores_norm == normalize_scores(mf_predictions)
        all_post_ids == DOMAIN rule_scores \cup DOMAIN mf_predictions
    IN [num |-> [post_id \in all_post_ids |->
                    (IF post_id \in DOMAIN rule_scores
                     THEN rule_scores_norm.num[post_id] * mf_weight * mf_scores_norm.den
                     ELSE 0)
                  + (IF post_id \in DOMAIN mf_predictions
                     THEN mf_scores_norm.num[post_id] * rule_weight * rule_scores_norm.den
                     ELSE 0)],
        den |-> DefaultRuleWeight * rule_scores_norm.den * mf_scores_norm.den]

\* blended_scores of blend_recommendations: the blended score of a post is
\* num[post] / den; weights are in tenths
blended_scores(rule_scores, mf_predictions, rule_weight, mf_weight) ==
    LET rule_scores_norm == normalize_scores(rule_scores)
        mf_scores_norm == normalize_scores(mf_predictions)
        all_post_ids == DOMAIN rule_scores \cup DOMAIN mf_predictions
    IN [num |-> [post_id \in all_post_ids |->
                    (IF post_id \in DOMAIN rule_scores
                     THEN rule_scores_norm.num[post_id] * rule_weight * mf_scores_norm.den
                     ELSE 0)
                  + (IF post_id \in DOMAIN mf_predictions
                     THEN mf_scores_norm.num[post_id] * mf_weight * rule_scores_norm.den
                     ELSE 0)],
        den |-> DefaultRuleWeight * rule_scores_norm.den * mf_scores_norm.den]

\* the constraints ge=0.0, le=1.0 of RecommendationItem.score and
\* RecommendationExplanation.score, applied when an object is constructed
score_valid(num, den) == 0 <= num /\ num <= den

\* enumerate without start=1
blend_rank_ZeroBased(position) == position - 1

\* the rank given to the item at a position of the sorted ids
\* (enumerate(sorted_post_ids, start=1))
blend_rank(position) == position

\* HybridRecommender.blend_recommendations.  Result: raised (constructing an
\* item failed validation), items.
blend_recommendations(rule_items, mf_predictions, rule_weight, mf_weight, limit) ==
    LET rule_ids == {rule_items[i].id : i \in 1..Len(rule_items)}
        rule_scores == [post_id \in rule_ids |->
                           (CHOOSE i \in 1..Len(rule_items) : rule_items[i].id = post_id)]
        scores == [post_id \in rule_ids |-> rule_items[rule_scores[post_id]].num]
        blended == blended_scores(scores, mf_predictions, rule_weight, mf_weight)
        sorted_post_ids == Take(SortDesc(DOMAIN blended.num, blended.num), limit)
        positions == 1..Len(sorted_post_ids)
        \* positions whose post is in rule_items_dict or is found in recruit_post
        kept == {i \in positions :
                    sorted_post_ids[i] \in rule_ids \/ sorted_post_ids[i] \in PostIds}
        fresh == {i \in kept : sorted_post_ids[i] \notin rule_ids}
        item(i) ==
            LET post_id == sorted_post_ids[i]
            IN IF post_id \in rule_ids
               THEN [rule_items[rule_scores[post_id]] EXCEPT
                        !.num = blended.num[post_id], !.den = blended.den,
                        !.rank = blend_rank(i)]
               ELSE [id |-> post_id, num |-> blended.num[post_id], den |-> blended.den,
                     rank |-> blend_rank(i),
                     explanation |-> [present |-> TRUE, score |-> 0, reason |-> "mf"]]
        result == [n \in 1..Cardinality(kept) |->
                      item(CHOOSE i \in kept : Cardinality({j \in kept : j <= i}) = n)]
    IN IF \E i \in fresh : ~score_valid(blended.num[sorted_post_ids[i]], blended.den)
       THEN [raised |-> TRUE, items |-> <<>>]
       ELSE [raised |-> FALSE, items |-> result]

\* the test without its mf_weight == 0.0 disjunct
rule_only_PhaseOnly(current_phase, mf_weight) == current_phase = "P1"

\* the test of HybridRecommender.recommend that selects the rule-only path
rule_only(current_phase, mf_weight) == current_phase = "P1" \/ mf_weight = 0

\* the fallback returning nothing when the model cannot be loaded
fallback_items_Empty(rule_items, limit) == <<>>

\* the fallback without the [:limit] slice
fallback_items_NoSlice(rule_items, limit) == rule_items

\* what HybridRecommender.recommend returns when the model cannot be loaded
fallback_items(rule_items, limit) == Take(rule_items, limit)

\* the RECRUITING posts HybridRecommender.recommend adds to the rule results
additional_posts(d) ==
    {p \in d.recruiting : Cardinality({q \in d.recruiting : q < p}) < AdditionalLimit}

\* HybridRecommender.recommend
hybrid_recommend(cfg, d, art, user_id, limit, include_explanations) ==
    LET current_phase == get_current_phase(cfg)
        weights == get_weights(cfg, current_phase)
        rule_weight == weights.rule_based
        mf_weight == weights.matrix_factorization
    IN IF rule_only(current_phase, mf_weight)
       THEN [raised |-> FALSE, path |-> "rule",
             items |-> rule_recommend(d, user_id, limit, include_explanations)]
       ELSE LET rule_items == rule_recommend(d, user_id, limit * 2, include_explanations)
            IN IF rule_items = <<>>
               THEN [raised |-> FALSE, path |-> "empty", items |-> <<>>]
               ELSE IF ~load_mf_model(art)
               THEN [raised |-> FALSE, path |-> "fallback",
                     items |-> fallback_items(rule_items, limit)]
               ELSE LET rule_post_ids == {rule_items[i].id : i \in 1..Len(rule_items)}
                        all_post_ids == rule_post_ids \cup additional_posts(d)
                        mf_predictions == get_mf_predictions(art, user_id, all_post_ids)
                        b == blend_recommendations(rule_items, mf_predictions,
                                                   rule_weight, mf_weight, limit)
                    IN [raised |-> b.raised, path |-> "blend", items |-> b.items]

(***************************************************************************)
(* Recommendation requests                                                 *)
(***************************************************************************)

NoDb == [present |-> {}, recruiting |-> {}, bookmarks |-> {}, applies |-> {}]

NoResp ==
    [kind |-> "none", user_id |-> 1, limit |-> 1, include_explanations |-> FALSE,
     raised |-> FALSE, path |-> "none", items |-> <<>>]

NoEvalObs ==
    [kind |-> "none", uri |-> EmptySection, failing |-> {}, current |-> "P1",
     results |-> EmptySection, decided |-> FALSE, recommended |-> None,
     left |-> "P1", write_failed |-> FALSE, reported |-> None]

\* one HybridRecommender.recommend call (as the evaluation harness issues it).
\* A request changes neither the store nor the configuration, so a behaviour
\* serves one request against the store it starts with.
HybridRequest ==
    \E user_id \in MemberIds, limit \in 1..MaxLimit, include_explanations \in BOOLEAN :
        LET r == hybrid_recommend(mem, db, artifact, user_id, limit, include_explanations)
        IN /\ resp.kind = "none"
           /\ resp' = [kind |-> "hybrid", user_id |-> user_id, limit |-> limit,
                       include_explanations |-> include_explanations,
                       raised |-> r.raised, path |-> r.path, items |-> r.items]
           /\ UNCHANGED <<file, mem, lastRun, db, artifact, evalObs, rt, calc>>

\* one POST /recommendations/recommend: recommend_posts serves every known
\* phase with _recommend_with_knn_only and fails on an unknown phase
ApiRequest ==
    \E user_id \in MemberIds, limit \in 1..MaxLimit, include_explanations \in BOOLEAN :
        LET current_phase == get_current_phase(mem)
        IN /\ resp.kind = "none"
           /\ resp' = IF current_phase \in Phases
                      THEN [kind |-> "api", user_id |-> user_id, limit |-> limit,
                            include_explanations |-> include_explanations,
                            raised |-> FALSE, path |-> "rule",
                            items |-> rule_recommend(db, user_id, limit, include_explanations)]
                      ELSE [kind |-> "api", user_id |-> user_id, limit |-> limit,
                            include_explanations |-> include_explanations,
                            raised |-> TRUE, path |-> "none", items |-> <<>>]
           /\ UNCHANGED <<file, mem, lastRun, db, artifact, evalObs, rt, calc>>

\* the stores a request can run against: any subset of the members with at
\* most one row missing, the posts with at most one not RECRUITING, and at
\* most one bookmark or application row
Stores ==
    {[present |-> MemberIds \ missing, recruiting |-> PostIds \ closed,
      bookmarks |-> b, applies |-> a] :
        missing \in {{}} \cup {{m} : m \in MemberIds},
        closed \in {{}} \cup {{q} : q \in PostIds},
        b \in {{}} \cup {{<<m, q>>} : m \in MemberIds, q \in PostIds},
        a \in {{}} \cup {{<<m, q>>} : m \in MemberIds, q \in PostIds}}

InitRec ==
    /\ \E current \in Phases, w \in WeightDocs :
          /\ current # "P2" => w = StandardWeights
          /\ file = [InitialConfig(TRUE) EXCEPT !.current = current, !.weights = w]
    /\ mem = file
    /\ lastRun = NoRun
    /\ db \in {d \in Stores : d.bookmarks = {} \/ d.applies = {}}
    /\ artifact \in Artifacts
    /\ resp = NoResp
    /\ evalObs = NoEvalObs
    /\ rt = NoRt
    /\ calc = NoCalc

NextRec ==
    \/ HybridRequest
    \/ ApiRequest

SpecRec == InitRec /\ [][NextRec]_vars

(***************************************************************************)
(* Evaluation of a phase on the test set                                   *)
(***************************************************************************)

\* k of self.evaluate_phase(phase, user_relevant_items, k=10)
EvalK == 10

\* 1 / log2(i + 1) for i = 1..10, in thousandths, rounded down
DiscountTable == <<1000, 630, 500, 430, 386, 356, 333, 315, 301, 289>>

RECURSIVE SumOver(_, _)
SumOver(f, S) ==
    IF S = {} THEN 0
    ELSE CHOOSE total \in {f[x] + SumOver(f, S \ {x}) : x \in {CHOOSE y \in S : TRUE}} :
            TRUE

\* len(set(recommended[:k]) & relevant)
num_relevant_and_recommended(recommended, relevant, k) ==
    LET recommended_k == Take(recommended, k)
    IN Cardinality({recommended_k[i] : i \in 1..Len(recommended_k)} \cap relevant)

\* PhaseComparator.precision_at_k, in percent rounded down
precision_at_k(recommended, relevant, k) ==
    IF k > 0 THEN (100 * num_relevant_and_recommended(recommended, relevant, k)) \div k
    ELSE 0

\* PhaseComparator.recall_at_k, in percent rounded down
recall_at_k(recommended, relevant, k) ==
    IF Cardinality(relevant) > 0
    THEN (100 * num_relevant_and_recommended(recommended, relevant, k))
            \div Cardinality(relevant)
    ELSE 0

\* PhaseComparator.ndcg_at_k, in percent rounded down
ndcg_at_k(recommended, relevant, k) ==
    LET recommended_k == Take(recommended, k)
        dcg == SumOver([i \in 1..Len(recommended_k) |->
                           IF recommended_k[i] \in relevant THEN DiscountTable[i] ELSE 0],
                       1..Len(recommended_k))
        n == IF Cardinality(relevant) < k THEN Cardinality(relevant) ELSE k
        idcg == SumOver([i \in 1..n |-> DiscountTable[i]], 1..n)
    IN IF idcg > 0 THEN (100 * dcg) \div idcg ELSE 0

\* the sum of a field over a set of per-user records
RECURSIVE SumField(_, _)
SumField(S, field) ==
    IF S = {} THEN 0
    ELSE CHOOSE total \in {x[field] + SumField(S \ {x}, field) :
                               x \in {CHOOSE y \in S : TRUE}} : TRUE

\* np.mean(list) if list else 0.0, over a field of the appended records
mean_or_zero(S, field) ==
    IF S = {} THEN 0 ELSE SumField(S, field) \div Cardinality(S)

\* the body of the loop of evaluate_phase for one user: appended tells
\* whether the three metrics were appended to the lists
evaluate_user(config, d, art, user_id, relevant_items, failing) ==
    CHOOSE row \in
        {IF user_id \in failing \/ recommendations.raised
         THEN [user_id |-> user_id, appended |-> FALSE,
               precision |-> 0, recall |-> 0, ndcg |-> 0]
         ELSE CHOOSE appended \in
                {[user_id |-> user_id, appended |-> TRUE,
                  precision |-> precision_at_k(recommended_ids, relevant_items, EvalK),
                  recall |-> recall_at_k(recommended_ids, relevant_items, EvalK),
                  ndcg |-> ndcg_at_k(recommended_ids, relevant_items, EvalK)] :
                    recommended_ids \in {ids_of(recommendations.items)}} : TRUE :
            recommendations \in {hybrid_recommend(config, d, art, user_id, EvalK, FALSE)}} :
        TRUE

\* PhaseComparator.evaluate_phase.  user_relevant_items maps the users of the
\* test set to their relevant item ids; failing are the users for whom
\* recommender.recommend raises for a reason outside the recommender (a
\* failed query).  The phase is set on the shared configuration for the
\* duration of the loop.
evaluate_phase(cfg, d, art, phase, user_relevant_items, failing) ==
    CHOOSE result \in
        {[precision_at_10 |-> mean_or_zero(lists, "precision"),
          recall_at_10 |-> mean_or_zero(lists, "recall"),
          ndcg_at_10 |-> mean_or_zero(lists, "ndcg"),
          evaluated_users |-> Cardinality(lists)] :
            lists \in {{r \in {evaluate_user([cfg EXCEPT !.current = phase], d, art, user_id,
                                              user_relevant_items[user_id], failing) :
                                    user_id \in DOMAIN user_relevant_items} :
                            r.appended}}} : TRUE

\* evaluate_phase restoring the phase only when the loop met no failing user
evaluate_phase_config_RestoreOnSuccess(cfg, phase, user_relevant_items, failing) ==
    LET original_phase == get_current_phase(cfg)
        evaluating == [cfg EXCEPT !.current = phase]
    IN IF failing \cap DOMAIN user_relevant_items = {}
       THEN [evaluating EXCEPT !.current = original_phase]
       ELSE evaluating

\* the shared configuration evaluate_phase leaves behind: the phase is
\* remembered, overwritten for the loop over the users, and written back
\* after the loop.  A user for whom recommend raises is logged and skipped
\* inside the loop, so the statement after the loop is reached all the same.
evaluate_phase_config(cfg, phase, user_relevant_items, failing) ==
    LET original_phase == get_current_phase(cfg)
        evaluating == [cfg EXCEPT !.current = phase]
    IN [evaluating EXCEPT !.current = original_phase]

\* the shared configuration after step 4 of PhaseComparator.run: the current
\* phase is evaluated first, then the next one if there is one
config_after_evaluations(cfg, user_relevant_items, failing) ==
    LET current_phase == get_current_phase(cfg)
        first == evaluate_phase_config(cfg, current_phase, user_relevant_items, failing)
    IN IF current_phase = "P3" THEN first
       ELSE evaluate_phase_config(first, phase_order[PhaseIndex(current_phase) + 1],
                                  user_relevant_items, failing)

\* the metric triple of an evaluation result
metrics_of(result) == <<result.precision_at_10, result.recall_at_10, result.ndcg_at_10>>

\* user ids of the test set
TestUserIds == 1..MinEvalUsers

\* what load_test_data can return as user_relevant_items: the first n users,
\* all with item 1 relevant, all with items 2 and 3 relevant, or each with
\* one item of their own
TestSets ==
    UNION {{[u \in 1..n |-> {1}],
            [u \in 1..n |-> {2, 3}],
            [u \in 1..n |-> {((u - 1) % MaxPosts) + 1}]} : n \in UserCounts}

\* PhaseComparator.run with the evaluation carried out on the store: the
\* metrics handed to compare_and_recommend are those evaluate_phase computes.
\* write_fails: open(config_path, 'w') of update_config_with_results raises,
\* run re-raises and run_phase_comparison reports the current phase of the
\* shared configuration instead of a recommendation.
PhaseComparatorRunOnTestSet ==
    /\ evalObs.kind = "none"
    /\ \E uri \in TestSets :
      \E failing \in {{}} \cup {{u} : u \in DOMAIN uri} :
      \E write_fails \in BOOLEAN :
      \E evaluation \in {{<<p, evaluate_phase(file, db, artifact, p, uri, failing)>> :
                              p \in phases_to_evaluate(get_current_phase(file))}} :
        LET cfg == file
            current_phase == get_current_phase(cfg)
            evaluated == phases_to_evaluate(current_phase)
            results == [p \in evaluated |->
                           (CHOOSE e \in evaluation : e[1] = p)[2]]
            ev == [testOk |-> TRUE, users |-> Cardinality(DOMAIN uri),
                   mcur |-> metrics_of(results[current_phase]),
                   mnext |-> IF evaluated = {current_phase} THEN NoMetrics
                             ELSE metrics_of(results[CHOOSE p \in evaluated : p # current_phase])]
        IN \E cmp \in {PhaseComparator_run(cfg, ev)} :
           \E left \in {IF cmp.decided
                         THEN get_current_phase(config_after_evaluations(cfg, uri, failing))
                         ELSE get_current_phase(cfg)} :
           \E doc \in {[cmp.cfg EXCEPT !.current = left]} :
           /\ cmp.decided \/ ~write_fails
           /\ mem' = doc
           /\ file' = IF write_fails THEN file ELSE doc
           /\ lastRun' = [kind |-> "compare", current |-> current_phase,
                          counted |-> file.count, countFailed |-> FALSE,
                          triggered |-> TRUE, thresholdUsed |-> FALSE,
                          evalRaised |-> cmp.raised \/ write_fails,
                          inconclusive |-> cmp.inconclusive,
                          decided |-> cmp.decided, results |-> cmp.results,
                          recommended |-> cmp.ret,
                          outcome |-> IF cmp.raised \/ write_fails
                                      THEN "raised" ELSE "returned",
                          report |-> "none"]
           /\ evalObs' = [kind |-> "eval", uri |-> uri, failing |-> failing,
                          current |-> current_phase,
                          results |-> IF cmp.decided THEN results ELSE EmptySection,
                          decided |-> cmp.decided, recommended |-> cmp.ret,
                          left |-> left, write_failed |-> write_fails,
                          reported |-> run_phase_comparison(
                                           [cmp EXCEPT !.raised = @ \/ write_fails,
                                                       !.cfg = doc])]
           /\ UNCHANGED <<db, artifact, resp, rt, calc>>

\* the stores an evaluation can run against: at most one test user without a
\* member row, at most one post not RECRUITING
EvalStores ==
    {[present |-> TestUserIds \ missing, recruiting |-> PostIds \ closed,
      bookmarks |-> {}, applies |-> {}] :
        missing \in {{}} \cup {{m} : m \in TestUserIds},
        closed \in {{}} \cup {{q} : q \in PostIds}}

InitEval ==
    /\ \E current \in Phases : file = [InitialConfig(TRUE) EXCEPT !.current = current]
    /\ mem = file
    /\ lastRun = NoRun
    /\ db \in EvalStores
    /\ artifact \in Artifacts
    /\ resp = NoResp
    /\ evalObs = NoEvalObs
    /\ rt = NoRt
    /\ calc = NoCalc

NextEval == PhaseComparatorRunOnTestSet

SpecEval == InitEval /\ [][NextEval]_vars

(***************************************************************************)
(* The configuration file shared by the API process and a controller run   *)
(***************************************************************************)

\* bounds of the explored interleavings
MaxRuns == 2
MaxRequests == 2

obsVars == <<lastRun, db, artifact, resp, evalObs, calc>>

\* the document a controller run works on: the singleton of the API process
\* when the scheduler thread runs it, its own copy when scripts/update_phase.py
\* runs as a process of its own
ctl_doc == IF rt.where = "thread" THEN mem ELSE rt.doc

\* the time a step reads (datetime.now(), or the modification time the file
\* system records): later than every time read before
now == rt.clock + 1

\* get_config: reload_if_changed up to json.load inside load_config.  A
\* truncated or partial file makes json.load raise, which reload_if_changed
\* catches.
ReqBegin ==
    /\ rt.api = "idle"
    /\ rt.requests < MaxRequests
    /\ LET reload == rt.mtime > rt.last_loaded /\ ~rt.torn
       IN /\ mem' = IF reload THEN file ELSE mem
          /\ rt' = [rt EXCEPT !.api = IF reload THEN "stamp" ELSE "ready",
                              !.requests = @ + 1,
                              !.runs_at_start = rt.runs,
                              !.quiet_at_start = (rt.ctl = "idle" /\ ~rt.torn)]
    /\ UNCHANGED <<file, obsVars>>

\* load_config: self._last_loaded = datetime.now()
ReqStamp ==
    /\ rt.api = "stamp"
    /\ rt' = [rt EXCEPT !.api = "ready", !.last_loaded = now, !.clock = now]
    /\ UNCHANGED <<file, mem, obsVars>>

\* recommend_posts: current_phase = cfg.get_current_phase()
ReqServe ==
    /\ rt.api = "ready"
    /\ rt' = [rt EXCEPT
                !.api = "idle",
                !.served = [kind |-> "served",
                            phase |-> get_current_phase(mem),
                            persisted |-> get_current_phase(file),
                            quiet |-> /\ rt.quiet_at_start
                                      /\ rt.ctl = "idle"
                                      /\ ~rt.torn
                                      /\ rt.runs = rt.runs_at_start,
                            evaluating |-> /\ rt.where = "thread"
                                           /\ rt.ctl \in {"loaded", "evaluating", "evaluated"}]]
    /\ UNCHANGED <<file, mem, obsVars>>

\* PhaseUpdater.__init__ / PhaseComparator.__init__: load_config.  A file that
\* cannot be parsed makes the constructor raise and the run ends.
CtlStart ==
    /\ rt.ctl = "idle"
    /\ rt.runs < MaxRuns
    /\ ~rt.torn
    /\ \E w \in {"thread", "process"} :
          /\ mem' = IF w = "thread" THEN file ELSE mem
          /\ rt' = [rt EXCEPT !.ctl = "loaded", !.where = w, !.doc = file,
                              !.original_phase = get_current_phase(file),
                              !.last_loaded = IF w = "thread" THEN now ELSE @,
                              !.clock = IF w = "thread" THEN now ELSE @]
    /\ UNCHANGED <<file, obsVars>>

\* evaluate_phase of the next phase: self.config._config['phase']['current'] = phase
CtlEvaluateNext ==
    /\ rt.ctl = "loaded"
    /\ rt.original_phase # "P3"
    /\ LET phase == phase_order[PhaseIndex(rt.original_phase) + 1]
       IN /\ mem' = IF rt.where = "thread" THEN [mem EXCEPT !.current = phase] ELSE mem
          /\ rt' = [rt EXCEPT !.ctl = "evaluating",
                              !.doc = IF rt.where = "thread" THEN @
                                      ELSE [@ EXCEPT !.current = phase]]
    /\ UNCHANGED <<file, obsVars>>

\* evaluate_phase: self.config._config['phase']['current'] = original_phase
CtlRestore ==
    /\ rt.ctl = "evaluating"
    /\ mem' = IF rt.where = "thread" THEN [mem EXCEPT !.current = rt.original_phase] ELSE mem
    /\ rt' = [rt EXCEPT !.ctl = "evaluated",
                        !.doc = IF rt.where = "thread" THEN @
                                ELSE [@ EXCEPT !.current = rt.original_phase]]
    /\ UNCHANGED <<file, obsVars>>

\* the current phase scored 0.50 on every metric
BaseMetrics == <<50, 50, 50>>

\* the decision and open(config_path, 'w') of update_phase_in_config, which
\* truncates the file.  The records of update_config_with_results are written
\* the same way just before and are folded into this write.
CtlWriteOpen ==
    /\ rt.ctl = "evaluated" \/ (rt.ctl = "loaded" /\ rt.original_phase = "P3")
    /\ \E mnext \in {m \in MetricProfiles : m[1] > BaseMetrics[1]} :
          LET results == [p \in phases_to_evaluate(rt.original_phase) |->
                             IF p = rt.original_phase THEN BaseMetrics ELSE mnext]
              new_phase == compare_and_recommend(results, rt.original_phase)
              written == update_phase_in_config(
                             update_config_with_results(ctl_doc, results), new_phase,
                             ctl_doc.count + DefaultEvaluationInterval)
          IN /\ mem' = IF rt.where = "thread" THEN written ELSE mem
             /\ rt' = [rt EXCEPT !.ctl = "open", !.torn = TRUE, !.mtime = now,
                                 !.clock = now,
                                 !.doc = IF rt.where = "thread" THEN @ ELSE written]
    /\ UNCHANGED <<file, obsVars>>

\* json.dump and the close of the file
CtlWriteClose ==
    /\ rt.ctl = "open"
    /\ file' = ctl_doc
    /\ rt' = [rt EXCEPT !.ctl = "idle", !.torn = FALSE, !.mtime = now, !.clock = now,
                        !.runs = @ + 1]
    /\ UNCHANGED <<mem, obsVars>>

\* the writer is killed between the truncation and the end of json.dump
CtlCrash ==
    /\ rt.ctl = "open"
    /\ rt' = [rt EXCEPT !.ctl = "idle", !.runs = @ + 1]
    /\ UNCHANGED <<file, mem, obsVars>>

InitStore ==
    /\ file = InitialConfig(TRUE)
    /\ mem = file
    /\ lastRun = NoRun
    /\ db = NoDb
    /\ artifact = "none"
    /\ resp = NoResp
    /\ evalObs = NoEvalObs
    /\ rt = NoRt
    /\ calc = NoCalc

NextStore ==
    \/ ReqBegin
    \/ ReqStamp
    \/ ReqServe
    \/ CtlStart
    \/ CtlEvaluateNext
    \/ CtlRestore
    \/ CtlWriteOpen
    \/ CtlWriteClose
    \/ CtlCrash

SpecStore == InitStore /\ [][NextStore]_vars

(***************************************************************************)
(* The scorer functions applied on their own                               *)
(***************************************************************************)

\* bound of the explored feature weights
MaxFeatureWeight == 5

\* configured values of rule_based.feature_weights.gender / .age
FeatureWeights == {0, 3, MaxFeatureWeight}

\* birth dates that give the youngest and the oldest supported age (19, 34)
BirthDates == {<<Today[1] - 19, 1, 1>>, <<Today[1] - 34, 1, 1>>}

Optional(values) == values \cup {None}

\* requester rows over the defined value ranges: any gender preference or
\* none, either extreme age, lifestyle and personality preference set or
\* unset, all tolerances on or off, cohabitant_count 0 or the assumed maximum
RequesterRows ==
    {[MemberTable[1] EXCEPT
        !.preferred_gender = g, !.birth = b,
        !.preferred_life_style = l, !.preferred_personality = l2,
        !.possible_smoking = h, !.possible_snoring = h, !.has_pet_allowed = h,
        !.cohabitant_count = c] :
        g \in Optional({"MAN", "FEMALE", "NONE"}), b \in BirthDates,
        l \in {"MORNING", None}, l2 \in {"INTROVERT", None},
        h \in BOOLEAN, c \in {0, MaxOccupancySpan}}

\* author rows over the defined value ranges
AuthorRows ==
    {[MemberTable[1] EXCEPT
        !.gender = g, !.birth = b, !.my_lifestyle = l, !.my_personality = l2,
        !.is_smoking = h, !.is_snoring = h, !.has_pet = h] :
        g \in {"MAN", "FEMALE"}, b \in BirthDates,
        l \in {"MORNING", "EVENING"}, l2 \in {"INTROVERT", "EXTROVERT"},
        h \in BOOLEAN}

\* recruit_count of the listing: within MaxOccupancySpan of cohabitant_count
RecruitCounts == {1, MaxOccupancySpan}

\* calculate_weighted_distance and calculate_max_possible_distance of a
\* recommender constructed with the weights, on one (member, post, author)
ScoreDistance ==
    /\ calc.kind = "none"
    /\ \E member \in RequesterRows, author \in AuthorRows, recruit_count \in RecruitCounts,
          gender_weight \in FeatureWeights, age_weight \in FeatureWeights :
          \E v \in {create_feature_vector(member, recruit_count, author)} :
            calc' = [kind |-> "distance", member_vec |-> v.member_vec,
                     author_vec |-> v.author_vec,
                     gender_weight |-> gender_weight, age_weight |-> age_weight,
                     distance_squared |->
                        distance_squared(v.member_vec, v.author_vec,
                                         create_weight_vector(gender_weight, age_weight)),
                     max_distance_squared |->
                        max_distance_squared(gender_weight, age_weight)]
    /\ UNCHANGED <<file, mem, lastRun, db, artifact, resp, evalObs, rt>>

\* bounds of the vectors handed to the distance function directly
MaxVecLen == 2
MaxAxisValue == 2

Vectors(values) == UNION {[1..n -> values] : n \in 1..MaxVecLen}

\* one call of calculate_weighted_euclidean_distance
WeightedEuclideanDistance ==
    /\ calc.kind = "none"
    /\ \E vec_a \in Vectors(0..MaxAxisValue), vec_b \in Vectors(0..MaxAxisValue),
          weights \in Vectors(-1..1) :
          \E r \in {calculate_weighted_euclidean_distance(vec_a, vec_b, weights)} :
            calc' = [kind |-> "euclid", vec_a |-> vec_a, vec_b |-> vec_b,
                     weights |-> weights, raised |-> r.raised,
                     distance_squared |-> r.distance_squared]
    /\ UNCHANGED <<file, mem, lastRun, db, artifact, resp, evalObs, rt>>

\* rule scores in hundredths and MF ratings in halves (2.5, 3.0, 5.0) handed
\* to the blender
RuleScoreValues == {0, 90, 100}
RatingValues == {5, 6, 10}

\* <<rule_weight, mf_weight>> in tenths: P2, P3, and P2 without its
\* rule_based key
BlendWeights == {<<6, 4>>, <<2, 8>>, <<DefaultRuleWeight, 4>>}

ScoreMaps(values) == UNION {[ids -> values] : ids \in SUBSET PostIds}

\* the rule items of a score map, as RuleBasedKNNRecommender.recommend
\* with explanations returns them
rule_items_of(scores) ==
    LET ids == SortDesc(DOMAIN scores, scores)
    IN [rank \in 1..Len(ids) |->
           [id |-> ids[rank], num |-> scores[ids[rank]], den |-> ScoreOne, rank |-> rank,
            explanation |-> [present |-> TRUE, score |-> scores[ids[rank]],
                             reason |-> "rule"]]]

\* one call of blend_recommendations, on a non-empty rule result
Blend ==
    /\ calc.kind = "none"
    /\ \E rule_scores \in ScoreMaps(RuleScoreValues) \ {EmptySection},
          mf_predictions \in ScoreMaps(RatingValues),
          w \in BlendWeights, limit \in 1..MaxLimit :
          \E b \in {blend_recommendations(rule_items_of(rule_scores), mf_predictions,
                                          w[1], w[2], limit)} :
            calc' = [kind |-> "blend", rule_scores |-> rule_scores,
                     mf_predictions |-> mf_predictions,
                     rule_weight |-> w[1], mf_weight |-> w[2], limit |-> limit,
                     raised |-> b.raised, items |-> b.items]
    /\ UNCHANGED <<file, mem, lastRun, db, artifact, resp, evalObs, rt>>

\* normalize_scores applied to a collection, and again to its own output.
\* The values of the output are num[k] / den over one denominator, and
\* (v/d - m/d) / (M/d - m/d) = (v - m) / (M - m), so the second application
\* is computed on the numerators.
NormalizeScores ==
    /\ calc.kind = "none"
    /\ \E scores \in ScoreMaps(RatingValues) :
          \E once \in {normalize_scores(scores)} :
            calc' = [kind |-> "normalize", scores |-> scores, once |-> once,
                     twice |-> normalize_scores(once.num)]
    /\ UNCHANGED <<file, mem, lastRun, db, artifact, resp, evalObs, rt>>

InitCalc ==
    /\ file = InitialConfig(TRUE)
    /\ mem = file
    /\ lastRun = NoRun
    /\ db = NoDb
    /\ artifact = "none"
    /\ resp = NoResp
    /\ evalObs = NoEvalObs
    /\ rt = NoRt
    /\ calc = NoCalc

NextCalc ==
    \/ ScoreDistance
    \/ WeightedEuclideanDistance
    \/ Blend
    \/ NormalizeScores

SpecCalc == InitCalc /\ [][NextCalc]_vars

(***************************************************************************)
(* Specification of the phase controller                                   *)
(***************************************************************************)

Init ==
    /\ \E auto \in BOOLEAN : file = InitialConfig(auto)
    /\ mem = file
    /\ lastRun = NoRun
    /\ db = NoDb
    /\ artifact = "none"
    /\ resp = NoResp
    /\ evalObs = NoEvalObs
    /\ rt = NoRt
    /\ calc = NoCalc

Next ==
    \/ PhaseUpdaterRun
    \/ PhaseComparatorMain

Spec == Init /\ [][Next]_vars

(***************************************************************************)
(* Properties of the phase controller                                      *)
(***************************************************************************)

\* a is earlier than b in the order P1 < P2 < P3
Earlier(a, b) == a \in Phases /\ b \in Phases /\ PhaseIndex(a) < PhaseIndex(b)

\* C1: no controller run moves the persisted phase.current to an earlier
\* phase of the order P1 < P2 < P3.
C1_NeverEarlier == [][~Earlier(file'.current, file.current)]_vars

\* C2: whenever compare_and_recommend is reached, it returns the immediate
\* successor of the current phase exactly when the current phase is not P3
\* and next_score / current_score >= 1.1 (the ratio counts as 0 when the
\* current score is 0), and the current phase otherwise; composite scores
\* 0.50 -> 0.56 promote and 0.50 -> 0.54 hold.
C2_PromoteIffRatio ==
    lastRun.decided =>
        LET cur == lastRun.current
            res == lastRun.results
            cs == 5 * res[cur][1] + 3 * res[cur][2] + 2 * res[cur][3]
        IN IF cur = "P3"
           THEN lastRun.recommended = "P3"
           ELSE LET nxt == IF cur = "P1" THEN "P2" ELSE "P3"
                    ns == 5 * res[nxt][1] + 3 * res[nxt][2] + 2 * res[nxt][3]
                IN /\ lastRun.recommended \in {cur, nxt}
                   /\ lastRun.recommended = nxt <=> (cs > 0 /\ 10 * ns >= 11 * cs)
                   /\ (res[cur] = <<50, 50, 50>> /\ res[nxt] = <<56, 56, 56>>)
                         => lastRun.recommended = nxt
                   /\ (res[cur] = <<50, 50, 50>> /\ res[nxt] = <<54, 54, 54>>)
                         => lastRun.recommended = cur

\* a decided comparison 0.50 -> 0.56 out of P1 that recommended P2
C2_Witness ==
    /\ lastRun.decided
    /\ lastRun.current = "P1"
    /\ lastRun.results["P1"] = <<50, 50, 50>>
    /\ lastRun.results["P2"] = <<56, 56, 56>>
    /\ lastRun.recommended = "P2"

\* C3: a PhaseUpdater.run whose triggered evaluation found fewer than 5
\* evaluable users persists the phase.current it started from.
C3_InconclusiveHolds ==
    [][(lastRun'.kind = "update" /\ lastRun'.inconclusive)
          => file'.current = file.current]_vars

\* C4: a PhaseUpdater.run whose evaluation raised, or whose interaction
\* count query failed, persists the same current phase, interaction counter
\* and evaluation history it started from.
C4_FailedRunKeepsState ==
    [][(lastRun'.kind = "update" /\ (lastRun'.evalRaised \/ lastRun'.countFailed))
          => /\ file'.current = file.current
             /\ file'.count = file.count
             /\ file'.history = file.history]_vars

\* C5: a PhaseUpdater.run whose triggered evaluation raised ends in an error
\* outcome, and the run-now endpoint reports an error.
C5_FailureSurfaced ==
    (lastRun.kind = "update" /\ lastRun.evalRaised)
        => (lastRun.outcome = "raised" /\ lastRun.report = "error")

\* C11: in one PhaseUpdater.run the interaction-count policy is applied only
\* when phase.auto_transition_enabled is false, the evaluation-driven
\* comparison is run only when it is true, and never both.
C11_PoliciesExclusive ==
    lastRun.kind = "update"
        => /\ lastRun.thresholdUsed => ~file.auto
           /\ lastRun.triggered => file.auto
           /\ ~(lastRun.thresholdUsed /\ lastRun.triggered)

\* a run that applied the interaction-count policy and moved the phase to P2
C11_Witness ==
    /\ lastRun.kind = "update"
    /\ lastRun.thresholdUsed
    /\ ~file.auto
    /\ lastRun.current = "P1"
    /\ file.current = "P2"

\* C13: when a run ends after its evaluation reached a promote-or-hold
\* decision, the persisted document holds, for the phase the run started
\* from and for its successor unless that phase is P3, an evaluation record
\* with the metrics of this run, whether the decision was promote or hold.
C13_RecordsPersisted ==
    lastRun.decided =>
        \A p \in {lastRun.current}
                 \cup (IF lastRun.current = "P1" THEN {"P2"}
                       ELSE IF lastRun.current = "P2" THEN {"P3"} ELSE {}) :
            /\ file.history[p].evaluated
            /\ <<file.history[p].precision, file.history[p].recall, file.history[p].ndcg>>
                  = lastRun.results[p]

\* a PhaseUpdater.run out of P1 that decided to hold and recorded P1 and P2
C13_Witness ==
    /\ lastRun.kind = "update"
    /\ lastRun.decided
    /\ lastRun.current = "P1"
    /\ lastRun.recommended = "P1"
    /\ lastRun.results["P2"] = <<54, 54, 54>>
    /\ file.history["P2"].evaluated
    /\ file.history["P2"].precision = 54

\* C27: after any sequence of PhaseUpdater.run and PhaseComparator.run
\* executions the persisted phase.current is one of "P1", "P2", "P3".
C27_PersistedPhaseIsValid == file.current \in Phases

\* C26: when the composite score measured for the current phase is 0,
\* compare_and_recommend returns the current phase whatever the score of the
\* next phase, and the run that evaluated leaves the persisted phase where
\* it was.
C26_ZeroScoreNeverLeft ==
    (/\ lastRun.decided
     /\ lastRun.current \in DOMAIN lastRun.results
     /\ calculate_weighted_score(lastRun.results[lastRun.current]) = 0)
        => /\ lastRun.recommended = lastRun.current
           /\ file.current = lastRun.current

\* a PhaseUpdater.run that measured 0 for the current phase and a positive
\* composite score for the next one
C26_Witness ==
    /\ lastRun.kind = "update"
    /\ lastRun.decided
    /\ calculate_weighted_score(lastRun.results[lastRun.current]) = 0
    /\ \E p \in DOMAIN lastRun.results :
          p # lastRun.current /\ calculate_weighted_score(lastRun.results[p]) > 0
    /\ file.current = lastRun.current

\* C25: with phase.auto_transition_enabled false, the phase PhaseUpdater.run
\* persists depends only on the counted interactions and the two cutoffs:
\* P3 from the P3 cutoff on, else P2 from the P2 cutoff on, else P1,
\* whatever the phase was before the run.
C25_ThresholdPolicyOnly ==
    (lastRun.kind = "update" /\ ~file.auto)
        => /\ file.count >= DefaultP3Min => file.current = "P3"
           /\ (DefaultP2Min <= file.count /\ file.count < DefaultP3Min)
                 => file.current = "P2"
           /\ file.count < DefaultP2Min => file.current = "P1"

\* a run under the interaction-count policy that started in P3, counted
\* fewer interactions than the P2 cutoff and persisted P1
C25_Witness ==
    /\ lastRun.kind = "update"
    /\ ~file.auto
    /\ lastRun.thresholdUsed
    /\ lastRun.current = "P3"
    /\ file.count < DefaultP2Min
    /\ file.current = "P1"

\* the interval milestone a count has reached
Milestone(count) == count \div DefaultEvaluationInterval

\* C29: a PhaseUpdater.run triggers the evaluation only if auto-transition is
\* enabled, the counted interactions are at least the P2 cutoff and their
\* milestone is above the milestone of the count persisted before the run;
\* the run persists the counted interactions as the new last count; a run
\* that follows a run with the same counted interactions does not trigger.
C29_OneEvaluationPerMilestone ==
    [][lastRun'.kind = "update"
         => /\ file'.count = lastRun'.counted
            /\ lastRun'.triggered
                 => /\ file.auto
                    /\ lastRun'.counted >= DefaultP2Min
                    /\ Milestone(lastRun'.counted) > Milestone(file.count)
            /\ (lastRun.kind = "update" /\ lastRun'.counted = lastRun.counted)
                 => ~lastRun'.triggered]_vars

\* with auto-transition enabled, a run counted at least the P2 cutoff and
\* did not trigger the evaluation, an evaluation having been recorded earlier
C29_Witness ==
    /\ lastRun.kind = "update"
    /\ file.auto
    /\ lastRun.counted >= DefaultP2Min
    /\ ~lastRun.triggered
    /\ file.count = lastRun.counted
    /\ \E p \in Phases : file.history[p].evaluated

(***************************************************************************)
(* Properties of the recommenders                                          *)
(***************************************************************************)

ItemIds == {resp.items[i].id : i \in 1..Len(resp.items)}

MfWeightOfCurrentPhase == get_weights(mem, get_current_phase(mem)).matrix_factorization

\* C6: no listing authored by, bookmarked by or applied to by the requester
\* is in the list a recommend call returns, on the rule-only path and on the
\* blended path.
C6_NoExcludedListing ==
    \A p \in ItemIds :
        /\ PostMemberId(p) # resp.user_id
        /\ <<resp.user_id, p>> \notin db.bookmarks
        /\ <<resp.user_id, p>> \notin db.applies

\* C7: under P1, or under a phase whose matrix_factorization weight is 0,
\* HybridRecommender.recommend returns exactly the list (ids, scores, ranks,
\* explanations) RuleBasedKNNRecommender.recommend returns for the same
\* user, limit and include_explanations.
C7_ZeroWeightIsRuleOnly ==
    (resp.kind = "hybrid" /\ (get_current_phase(mem) = "P1" \/ MfWeightOfCurrentPhase = 0))
        => /\ ~resp.raised
           /\ resp.items = rule_recommend(db, resp.user_id, resp.limit,
                                           resp.include_explanations)

\* a P2 request with weight 0 on the learned model, a loadable model and two
\* explained items returned
C7_Witness ==
    /\ resp.kind = "hybrid"
    /\ get_current_phase(mem) = "P2"
    /\ MfWeightOfCurrentPhase = 0
    /\ artifact = "asc"
    /\ resp.include_explanations
    /\ Len(resp.items) = 2

\* C8: with a non-zero learned-model weight and no loadable artifact,
\* HybridRecommender.recommend does not fail and returns the ids, scores and
\* ranks of RuleBasedKNNRecommender.recommend(limit).
C8_NoArtifactFallsBack ==
    (/\ resp.kind = "hybrid"
     /\ get_current_phase(mem) # "P1"
     /\ MfWeightOfCurrentPhase # 0
     /\ artifact = "none")
        => /\ ~resp.raised
           /\ resp.items = rule_recommend(db, resp.user_id, resp.limit,
                                           resp.include_explanations)

\* a fallback response that had more rule candidates than the limit
C8_Witness ==
    /\ resp.kind = "hybrid"
    /\ resp.path = "fallback"
    /\ MfWeightOfCurrentPhase # 0
    /\ artifact = "none"
    /\ Cardinality(rule_candidates(db, resp.user_id)) > resp.limit
    /\ Len(resp.items) = resp.limit

\* C9: the ranks of the returned items are 1..N in list order, N <= limit.
C9_RanksContiguous ==
    /\ Len(resp.items) <= resp.limit
    /\ \A i \in 1..Len(resp.items) : resp.items[i].rank = i

\* a blended response of two items that contains a learned-model-only item
C9_Witness ==
    /\ resp.kind = "hybrid"
    /\ resp.path = "blend"
    /\ Len(resp.items) = 2
    /\ \E i \in 1..Len(resp.items) : resp.items[i].explanation.reason = "mf"

\* C10: every returned item has a score in [0,1].
C10_ScoreInUnitInterval ==
    \A i \in 1..Len(resp.items) :
        0 <= resp.items[i].num /\ resp.items[i].num <= resp.items[i].den

\* C12: the ordered sequence of listing ids a recommend call returns is the
\* one the same call returns, over the same store, configuration and
\* artifact, with include_explanations negated.
C12_ExplanationsKeepOrder ==
    /\ resp.kind = "hybrid"
          => ids_of(resp.items) =
                ids_of(hybrid_recommend(mem, db, artifact, resp.user_id, resp.limit,
                                        ~resp.include_explanations).items)
    /\ (resp.kind = "api" /\ ~resp.raised)
          => ids_of(resp.items) =
                ids_of(rule_recommend(db, resp.user_id, resp.limit,
                                      ~resp.include_explanations))

\* C19: a request served while the current phase is P2 or P3 with a non-zero
\* matrix_factorization weight and a loadable model, for a requester the
\* rule scorer has candidates for, takes the blending path and returns the
\* blended items; with a loadable model the rule-only path is taken only
\* when the matrix_factorization weight is zero.
C19_BlendWhenWeighted ==
    /\ (/\ resp.kind # "none"
        /\ ~resp.raised
        /\ get_current_phase(mem) \in {"P2", "P3"}
        /\ MfWeightOfCurrentPhase # 0
        /\ load_mf_model(artifact)
        /\ resp.user_id \in db.present
        /\ rule_candidates(db, resp.user_id) # {})
          => /\ resp.path = "blend"
             /\ resp.items =
                   hybrid_recommend(mem, db, artifact, resp.user_id, resp.limit,
                                    resp.include_explanations).items
    /\ (resp.kind # "none" /\ resp.path = "rule" /\ load_mf_model(artifact))
          => MfWeightOfCurrentPhase = 0

\* the open listings a requester is owed: RECRUITING, not self-authored, not
\* bookmarked or applied to by the requester, author row present
OwedListings(user_id) ==
    {p \in db.recruiting :
        /\ PostMemberId(p) # user_id
        /\ <<user_id, p>> \notin db.bookmarks \cup db.applies
        /\ PostMemberId(p) \in db.present}

\* the response is the output of RuleBasedKNNRecommender.recommend called
\* with the request's limit
RuleAnswer == resp.kind # "none" /\ ~resp.raised /\ resp.path = "rule"

\* C20: RuleBasedKNNRecommender.recommend drops no open listing for gender
\* or age incompatibility: for an existing requester the result holds
\* min(limit, number of owed listings) items, all of them owed listings, all
\* owed listings when they fit in the limit, and so is non-empty whenever
\* one owed listing exists.
C20_NoHardFilter ==
    (RuleAnswer /\ resp.user_id \in db.present)
        => LET owed == OwedListings(resp.user_id)
           IN /\ Len(resp.items) =
                    (IF Cardinality(owed) < resp.limit THEN Cardinality(owed)
                     ELSE resp.limit)
              /\ ItemIds \subseteq owed
              /\ Cardinality(ItemIds) = Len(resp.items)
              /\ Cardinality(owed) <= resp.limit => ItemIds = owed
              /\ owed # {} => resp.items # <<>>

\* a rule answer to an existing requester none of whose owed listings
\* passes the gender and age filters, and that still lists one of them
C20_Witness ==
    /\ RuleAnswer
    /\ resp.user_id \in db.present
    /\ OwedListings(resp.user_id) # {}
    /\ \A p \in OwedListings(resp.user_id) : ~passes_hard_filters(resp.user_id, p)
    /\ resp.items # <<>>
    /\ \E p \in ItemIds : ~is_gender_compatible(MemberRow(resp.user_id),
                                                 MemberTable[PostMemberId(p)],
                                                 PostPreferredGender(p))

(***************************************************************************)
(* Properties of the evaluation                                            *)
(***************************************************************************)

\* the test users for whom recommendation generation did not fail: recommend
\* neither raised nor gave up because the member row was not found
GenerationSucceeded ==
    {u \in DOMAIN evalObs.uri : u \notin evalObs.failing /\ u \in db.present}

\* C14: the result evaluate_phase reports for a phase counts exactly the
\* users whose recommendation generation succeeded and its precision, recall
\* and NDCG are the means over those users alone.
C14_FailedUsersSkipped ==
    \A p \in DOMAIN evalObs.results :
        /\ evalObs.results[p].evaluated_users = Cardinality(GenerationSucceeded)
        /\ evalObs.results[p] =
              evaluate_phase(mem, db, artifact, p,
                             [u \in GenerationSucceeded |-> evalObs.uri[u]], {})

\* C15: a promote-or-hold decision is reached only when every evaluated
\* phase was evaluated on at least 5 users.
C15_DecisionNeedsFiveEvaluated ==
    evalObs.decided =>
        \A p \in DOMAIN evalObs.results :
            evalObs.results[p].evaluated_users >= MinEvalUsers

\* the composite score of an evaluation result
CompositeScore(result) == calculate_weighted_score(metrics_of(result))

\* the listing ids evaluate_phase obtains for a user under a phase
EvaluatedIds(phase, user_id) ==
    ids_of(hybrid_recommend([mem EXCEPT !.current = phase], db, artifact,
                            user_id, EvalK, FALSE).items)

C16_RequestSeesPersistedPhase ==
    (rt.served.kind = "served" /\ rt.served.quiet)
        => rt.served.phase = rt.served.persisted

\* C17: the file holds a complete document at every point in time.
C17_FileAlwaysComplete == ~rt.torn

\* C18: a request served while the scheduler thread is evaluating is served
\* with the persisted phase.
C18_RequestNeverSeesEvaluatedPhase ==
    (rt.served.kind = "served" /\ rt.served.evaluating)
        => rt.served.phase = rt.served.persisted

(***************************************************************************)
(* Properties of the scorer functions                                      *)
(***************************************************************************)

\* C21: for non-negative gender and age weights and a feature-vector pair
\* within the defined value ranges, the squared weighted distance is between
\* 0 and the squared calculate_max_possible_distance, so
\* 1 - distance / max_distance lies in [0,1] before clamping.
C21_MaxDistanceBounds ==
    calc.kind = "distance"
        => /\ 0 <= calc.distance_squared
           /\ calc.distance_squared <= calc.max_distance_squared
           /\ calc.max_distance_squared > 0

\* a pair at both extremes of age and occupancy, under non-default weights
C21_Witness ==
    /\ calc.kind = "distance"
    /\ calc.gender_weight # GenderWeight
    /\ calc.member_vec[4] - calc.author_vec[4] = MaxAgeSpan
    /\ calc.member_vec[12] - calc.author_vec[12] = MaxOccupancySpan - 1
    /\ calc.distance_squared > 0

\* the vectors and weights of the last distance computed without raising
DistanceComputed ==
    \/ calc.kind = "distance"
    \/ calc.kind = "euclid" /\ ~calc.raised

VecA == IF calc.kind = "distance" THEN calc.member_vec ELSE calc.vec_a
VecB == IF calc.kind = "distance" THEN calc.author_vec ELSE calc.vec_b
Weights ==
    IF calc.kind = "distance" THEN create_weight_vector(calc.gender_weight, calc.age_weight)
    ELSE calc.weights

\* C22 as stated: for all vectors and weights of equal length the function
\* accepts, the distance is >= 0, and it is 0 iff the two vectors are
\* identical.
C22_ZeroIffIdentical ==
    DistanceComputed
        => /\ calc.distance_squared >= 0
           /\ calc.distance_squared = 0 <=> VecA = VecB

\* C22 amended: for non-negative weights the distance is >= 0, and it is 0
\* iff the two vectors agree on every axis whose weight is not zero.
C22_ZeroIffAgreeOnWeightedAxes ==
    (DistanceComputed /\ \A i \in DOMAIN Weights : Weights[i] >= 0)
        => /\ calc.distance_squared >= 0
           /\ calc.distance_squared = 0
                <=> \A i \in DOMAIN Weights : Weights[i] # 0 => VecA[i] = VecB[i]

\* a feature-vector pair that differs on a gender axis only, scored by a
\* recommender configured with gender weight 0: distance 0
C22_Witness ==
    /\ calc.kind = "distance"
    /\ calc.gender_weight = 0
    /\ calc.age_weight > 0
    /\ VecA # VecB
    /\ calc.distance_squared = 0

\* min-max normalisation of one member as <<numerator, denominator>>;
\* a missing member counts 0
NormOf(scores, k) ==
    IF k \notin DOMAIN scores THEN <<0, 1>>
    ELSE LET values == {scores[j] : j \in DOMAIN scores}
         IN IF SetMin(values) = SetMax(values) THEN <<1, 2>>
            ELSE <<scores[k] - SetMin(values), SetMax(values) - SetMin(values)>>

\* item carries rule_weight * rule_norm + mf_weight * mf_norm of its id
\* (weights in tenths)
BlendedAsWeightedSum(item) ==
    LET r == NormOf(calc.rule_scores, item.id)
        m == NormOf(calc.mf_predictions, item.id)
    IN item.num * (10 * r[2] * m[2])
          = item.den * (calc.rule_weight * r[1] * m[2] + calc.mf_weight * m[1] * r[2])

\* the blended score of an id of the union, over the denominator 10 * R * M
\* common to all ids
BlendedOver(k) ==
    LET R == NormOf(calc.rule_scores, CHOOSE j \in DOMAIN calc.rule_scores : TRUE)[2]
        M == IF DOMAIN calc.mf_predictions = {} THEN 1
             ELSE NormOf(calc.mf_predictions,
                         CHOOSE j \in DOMAIN calc.mf_predictions : TRUE)[2]
        r == NormOf(calc.rule_scores, k)
        m == NormOf(calc.mf_predictions, k)
    IN calc.rule_weight * r[1] * (R \div r[2]) * M + calc.mf_weight * m[1] * (M \div m[2]) * R

\* C23: blend_recommendations scores every id of the union of the rule ids
\* and the prediction ids as rule_weight * rule_norm + mf_weight * mf_norm,
\* a missing side counting 0, and returns the ids in non-increasing blended
\* order truncated to limit.
C23_BlendedScoreAndOrder ==
    (calc.kind = "blend" /\ ~calc.raised)
        => LET union == DOMAIN calc.rule_scores \cup DOMAIN calc.mf_predictions
               returned == {calc.items[i].id : i \in 1..Len(calc.items)}
           IN /\ Len(calc.items) =
                    (IF Cardinality(union) < calc.limit THEN Cardinality(union)
                     ELSE calc.limit)
              /\ Cardinality(returned) = Len(calc.items)
              /\ returned \subseteq union
              /\ \A i \in 1..Len(calc.items) : BlendedAsWeightedSum(calc.items[i])
              /\ \A i \in 1..Len(calc.items) - 1 :
                    BlendedOver(calc.items[i].id) >= BlendedOver(calc.items[i + 1].id)
              /\ \A k \in union \ returned : \A j \in returned :
                    BlendedOver(j) >= BlendedOver(k)

\* the example of the blender: weights (0.6, 0.4), a listing with rule_norm
\* 0.9 and mf_norm 0.2 is returned with the blended score 0.62
C23_Witness ==
    /\ calc.kind = "blend"
    /\ ~calc.raised
    /\ calc.rule_weight = 6 /\ calc.mf_weight = 4
    /\ \E i \in 1..Len(calc.items) :
          /\ NormOf(calc.rule_scores, calc.items[i].id) = <<90, 100>>
          /\ NormOf(calc.mf_predictions, calc.items[i].id) = <<1, 5>>
          /\ calc.items[i].num * 100 = 62 * calc.items[i].den

\* C24: normalize_scores maps an empty collection to an empty one, a
\* collection of identical values to 0.5 for every member, and any other
\* collection to values in [0,1] with the minimum at 0, the maximum at 1
\* and the order of the members preserved; applied to its own output it
\* returns that output.
C24_NormalizeScores ==
    calc.kind = "normalize"
        => LET scores == calc.scores
               once == calc.once
               twice == calc.twice
               values == {scores[k] : k \in DOMAIN scores}
           IN /\ DOMAIN once.num = DOMAIN scores
              /\ once.den > 0
              /\ Cardinality(values) = 1
                    => \A k \in DOMAIN scores : 2 * once.num[k] = once.den
              /\ Cardinality(values) > 1
                    => /\ \A k \in DOMAIN scores :
                             /\ 0 <= once.num[k] /\ once.num[k] <= once.den
                             /\ scores[k] = SetMin(values) <=> once.num[k] = 0
                             /\ scores[k] = SetMax(values) <=> once.num[k] = once.den
                       /\ \A j, k \in DOMAIN scores :
                             scores[j] < scores[k] <=> once.num[j] < once.num[k]
              /\ DOMAIN twice.num = DOMAIN once.num
              /\ \A k \in DOMAIN scores :
                    twice.num[k] * once.den = once.num[k] * twice.den

\* a collection with a value strictly between its minimum and its maximum
C24_Witness ==
    /\ calc.kind = "normalize"
    /\ \E k \in DOMAIN calc.scores :
          0 < calc.once.num[k] /\ calc.once.num[k] < calc.once.den
             /\ 2 * calc.once.num[k] # calc.once.den

====
